---- MODULE Spec2Model ----
(***************************************************************************)
(* Network-Automation: the four fleet workflows of scripts/                *)
(*   configure_interfaces.py, configure_vlans.py, configure_routing.py,    *)
(*   backup_configs.py                                                     *)
(* One process run is: check credentials, load the declarative files,      *)
(* walk the inventory device by device, print the summary and return the   *)
(* exit status.  The device session (netmiko) is the environment: every    *)
(* call on it either returns or raises.                                    *)
(***************************************************************************)
EXTENDS Integers, Sequences, FiniteSets, TLC

\* ---------------------------------------------------------------- bounds
NumDevices == 2        \* routers in configs/inventory.yml
MaxSpecs == 2          \* entries of one router in a declarative file
NumTexts == 2          \* distinct running-config texts a router may return
MaxClock == 2          \* half seconds the wall clock may advance
MaxRuns == 2           \* invocations of the backup script over one backup_dir

Devices == 1..NumDevices
\* inventory['routers'], in file order; router names are unique
inventory == [i \in Devices |-> i]

Workflows == {"interfaces", "vlans", "routing", "backup"}
CredentialNames == {"ROUTER_USERNAME", "ROUTER_PASSWORD", "ROUTER_SECRET"}

VARIABLES
  workflow,            \* which script this process runs
  credentials,         \* the environment variables that are set
  pc,                  \* position of the process in main / the per-router function
  idx,                 \* position of the for loop over inventory['routers']
  k,                   \* position of the inner for loop over the router's entries
  interface_configs,   \* configs/interfaces.yml : router -> its 'interfaces' list
  vlan_config,         \* configs/vlans.yml : router -> its 'router_subinterfaces' list
  routing_config,      \* configs/routing.yml
  missing_field,       \* routers whose inventory entry lacks a required field ('ip')
  missing_key,         \* the ospf section of routing.yml lacks 'process_id'
  success_count,
  fail_count,
  successful_backups,  \* list of (router name, filename)
  exit_status,         \* the status the process ends with, once it has ended
  session,             \* router -> "none" | "open" | "closed"
  transcript,          \* router -> the calls made for it in this run, in order
  outcome,             \* router -> branch main took for it in this run
  running_config,      \* backup: text read by "show running-config"
  version_info,        \* backup: text read by "show version | include Version"
  timestamp,           \* backup: strftime value of line 78
  files,               \* backup_dir : file name -> chunks written
  index,               \* README.md entries, <<>> of pairs; see index_exists
  index_exists,        \* README.md exists in backup_dir
  now,                 \* wall clock, in half seconds
  run,                 \* number of the current invocation
  files_at_start,      \* the files of backup_dir as this invocation found them
  index_at_start       \* README.md as this invocation found it

vars == <<workflow, credentials, pc, idx, k, interface_configs, vlan_config,
          routing_config, missing_field, missing_key, success_count, fail_count, successful_backups,
          exit_status, session, transcript, outcome, running_config,
          version_info, timestamp, files, index, index_exists, now, run,
          files_at_start, index_at_start>>

cfgVars == <<interface_configs, vlan_config, routing_config, missing_field, missing_key>>
countVars == <<success_count, fail_count, successful_backups, outcome>>
devVars == <<session, transcript>>
localVars == <<running_config, version_info, timestamp>>
fsVars == <<files, index, index_exists>>
envVars == <<workflow, credentials, now, run, files_at_start, index_at_start>>

\* ------------------------------------------------------ declarative input
\* Values of the YAML fields are small integers; a router's entries are told
\* apart by the router and the position in its list.
IfaceName(d, j) == d * 10 + j
Address(d, j) == d * 100 + j
RouterIp(d) == d * 100
Mask(d) == 24 + d
Wildcard(d) == 255 - d

\* 'enabled' of an interface entry: set to true, set to false, or left out
EnabledChoices == <<"true", "false", "omitted">>

InterfaceEntry(d, j, e) ==
  [name |-> IfaceName(d, j), ip_address |-> Address(d, j), subnet_mask |-> Mask(d),
   description |-> Address(d, j), enabled |-> e]

\* the VLAN ids the entries carry: both ends of 1..4094 and their neighbours
VlanIds == <<1, 4095, 4094, 0>>

SubinterfaceEntry(d, j, v) ==
  [interface |-> IfaceName(d, j), vlan |-> v, ip_address |-> Address(d, j),
   subnet_mask |-> Mask(d), description |-> Address(d, j)]

NetworkEntry(d, j) == [network |-> Address(d, j), wildcard |-> Wildcard(d)]
\* the j-th area of a router has j networks; neither the areas of a router
\* nor the networks of an area are listed in ascending order
AreaEntry(d, j) ==
  [area |-> MaxSpecs - j, networks |-> [i \in 1..j |-> NetworkEntry(d, 10 * j - i)]]

\* a router has either no entry in a mapping or a full list; the lists of
\* interfaces and subinterfaces come with two choices of 'enabled' / 'vlan'
InterfaceLists(d) ==
  {<<>>} \cup
  {[j \in 1..MaxSpecs |->
      InterfaceEntry(d, j, EnabledChoices[((j + o - 1) % Len(EnabledChoices)) + 1])] :
     o \in 0..1}
SubinterfaceLists(d) ==
  {<<>>} \cup
  {[j \in 1..MaxSpecs |->
      SubinterfaceEntry(d, j, VlanIds[((j + o - 1) % Len(VlanIds)) + 1])] :
     o \in 0..1}
AreaLists(d) == {<<>>, [j \in 1..MaxSpecs |-> AreaEntry(d, j)]}
NetworkLists(d) == {<<>>, [j \in 1..MaxSpecs |-> NetworkEntry(d, MaxSpecs + 1 - j)]}
\* the maps router -> list that give every router one of its lists
Mappings(lists) ==
  {c \in [Devices -> UNION {lists[d] : d \in Devices}] : \A d \in Devices : c[d] \in lists[d]}

NoEntries == [d \in Devices |-> <<>>]
\* ospf_config['process_id'] and eigrp_config['as_number']
ProcessId == 1
AsNumber == 100
\* router_id_map is the set of routers that have an entry in it
NoRouting ==
  [ospf |-> [enabled |-> FALSE, process_id |-> ProcessId, router_id_map |-> {},
             areas |-> NoEntries],
   eigrp |-> [enabled |-> FALSE, as_number |-> AsNumber, networks |-> NoEntries]]

\* ------------------------------------------------------ command generators
\* A command is the tuple of the pieces its f-string joins.

\* InterfaceCommands with the admin state set before the address
InterfaceCommandsAdminFirst(interface_config) ==
  << <<"interface", interface_config.name>>,
     IF interface_config.enabled \in {"true", "omitted"}
       THEN <<"no shutdown">> ELSE <<"shutdown">>,
     <<"ip address", interface_config.ip_address, interface_config.subnet_mask>>,
     <<"description", interface_config.description>> >>

\* configure_interface, lines 52-62
InterfaceCommands(interface_config) ==
  << <<"interface", interface_config.name>>,
     <<"ip address", interface_config.ip_address, interface_config.subnet_mask>>,
     <<"description", interface_config.description>>,
     IF interface_config.enabled \in {"true", "omitted"}
       THEN <<"no shutdown">> ELSE <<"shutdown">> >>

\* configure_subinterface, lines 52-59
SubinterfaceCommands(subinterface_config) ==
  << <<"interface", subinterface_config.interface>>,
     <<"encapsulation dot1Q", subinterface_config.vlan>>,
     <<"ip address", subinterface_config.ip_address, subinterface_config.subnet_mask>>,
     <<"description", subinterface_config.description>>,
     <<"no shutdown">> >>

\* the inner loop of configure_ospf over one area's networks, lines 65-67
RECURSIVE AreaNetworkCommands(_, _)
AreaNetworkCommands(area, networks) ==
  IF networks = <<>> THEN <<>>
  ELSE << <<"network", Head(networks).network, Head(networks).wildcard, "area", area>> >>
         \o AreaNetworkCommands(area, Tail(networks))

\* OspfNetworkCommands with the areas taken last to first, which puts the
\* areas of a router in ascending order of their number
RECURSIVE OspfNetworkCommandsReversed(_)
OspfNetworkCommandsReversed(areas) ==
  IF areas = <<>> THEN <<>>
  ELSE OspfNetworkCommandsReversed(Tail(areas))
         \o AreaNetworkCommands(Head(areas).area, Head(areas).networks)

\* the outer loop of configure_ospf over the router's areas, lines 63-67
RECURSIVE OspfNetworkCommands(_)
OspfNetworkCommands(areas) ==
  IF areas = <<>> THEN <<>>
  ELSE AreaNetworkCommands(Head(areas).area, Head(areas).networks)
         \o OspfNetworkCommands(Tail(areas))

\* OspfCommands with the areas looked up under the first router of the
\* inventory instead of router_name
OspfCommandsOfFirst(router_name, ospf_config) ==
  << <<"router ospf", ospf_config.process_id>> >>
  \o (IF router_name \in ospf_config.router_id_map
        THEN << <<"router-id", RouterIp(router_name)>> >> ELSE <<>>)
  \o OspfNetworkCommands(ospf_config.areas[inventory[1]])

\* configure_ospf, lines 52-67
OspfCommands(router_name, ospf_config) ==
  << <<"router ospf", ospf_config.process_id>> >>
  \o (IF router_name \in ospf_config.router_id_map
        THEN << <<"router-id", RouterIp(router_name)>> >> ELSE <<>>)
  \o OspfNetworkCommands(ospf_config.areas[router_name])

\* the loop of configure_eigrp over the router's networks, lines 87-89
RECURSIVE EigrpNetworkCommands(_)
EigrpNetworkCommands(networks) ==
  IF networks = <<>> THEN <<>>
  ELSE << <<"network", Head(networks).network, Head(networks).wildcard>> >>
         \o EigrpNetworkCommands(Tail(networks))

\* EigrpCommands with automatic summarization disabled only for a router
\* that has networks
EigrpCommandsSummaryIfNetworks(router_name, eigrp_config) ==
  << <<"router eigrp", eigrp_config.as_number>> >>
  \o (IF eigrp_config.networks[router_name] # <<>>
        THEN << <<"no auto-summary">> >> ELSE <<>>)
  \o EigrpNetworkCommands(eigrp_config.networks[router_name])

\* configure_eigrp, lines 78-89
EigrpCommands(router_name, eigrp_config) ==
  << <<"router eigrp", eigrp_config.as_number>>, <<"no auto-summary">> >>
  \o EigrpNetworkCommands(eigrp_config.networks[router_name])


\* ------------------------------------------------------------ the session
\* One entry of a router's transcript: a call made for the router, the
\* commands it carried and whether it returned (ok) or raised.
Call(call, feature, commands, ok) ==
  [call |-> call, feature |-> feature, commands |-> commands, ok |-> ok]

Log(d, entries) == transcript' = [transcript EXCEPT ![d] = @ \o entries]

Submit(d, call, feature, commands, ok) == Log(d, <<Call(call, feature, commands, ok)>>)

\* the router the for loop of main is at
router == inventory[idx]

InLoop == idx \in Devices

\* ------------------------------------------------------------------ main
\* main: return 0 if fail_count == 0 else 1
ExitStatus(fails) == IF fails = 0 THEN 0 ELSE 1

\* main: "if connect_and_configure(...): success_count += 1", then the next router
ReturnTrue ==
  /\ success_count' = success_count + 1
  /\ outcome' = [outcome EXCEPT ![router] = "success"]
  /\ idx' = idx + 1
  /\ k' = 1
  /\ pc' = "loop"
  /\ UNCHANGED <<fail_count, successful_backups>>

\* ReturnFalse with the exception left to reach main: the run ends at this router
ReturnFalseAborts ==
  /\ fail_count' = fail_count + 1
  /\ outcome' = [outcome EXCEPT ![router] = "failure"]
  /\ idx' = idx
  /\ k' = 1
  /\ pc' = "exit"
  /\ UNCHANGED <<success_count, successful_backups>>

\* "except Exception as e: ... return False" of the per-router function, and
\* main: "else: fail_count += 1", then the next router
ReturnFalse ==
  /\ fail_count' = fail_count + 1
  /\ outcome' = [outcome EXCEPT ![router] = "failure"]
  /\ idx' = idx + 1
  /\ k' = 1
  /\ pc' = "loop"
  /\ UNCHANGED <<success_count, successful_backups>>

\* main_check_credentials with the privilege secret left out of the test
main_check_credentials_no_secret ==
  /\ pc = "start"
  /\ IF {"ROUTER_USERNAME", "ROUTER_PASSWORD"} \subseteq credentials
       THEN pc' = "load" /\ UNCHANGED exit_status
       ELSE pc' = "fatal" /\ exit_status' = 1
  /\ UNCHANGED <<idx, k, cfgVars, countVars, devVars, localVars, fsVars, envVars>>

\* main: the credentials are read from the environment; sys.exit(1) if any is unset
main_check_credentials ==
  /\ pc = "start"
  /\ IF credentials = CredentialNames
       THEN pc' = "load" /\ UNCHANGED exit_status
       ELSE pc' = "fatal" /\ exit_status' = 1
  /\ UNCHANGED <<idx, k, cfgVars, countVars, devVars, localVars, fsVars, envVars>>

\* the routing.yml contents this model draws from
RoutingConfigs ==
  {[ospf |-> [enabled |-> oe, process_id |-> ProcessId, router_id_map |-> ids,
              areas |-> ar],
    eigrp |-> [enabled |-> ee, as_number |-> AsNumber, networks |-> nw]] :
     oe \in BOOLEAN, ee \in BOOLEAN, ids \in {{}, {1}},
     ar \in Mappings([d \in Devices |-> AreaLists(d)]), nw \in Mappings([d \in Devices |-> NetworkLists(d)])}

\* load_config_files / load_inventory: a file is missing or is not YAML, and
\* the process ends with sys.exit(1)
UnreadableFiles ==
  /\ pc' = "fatal"
  /\ exit_status' = 1
  /\ UNCHANGED cfgVars

\* yaml.safe_load of inventory.yml and of the declarative file of the workflow
ParsedFiles ==
  /\ \/ /\ workflow = "interfaces"
        /\ \E c \in Mappings([d \in Devices |-> InterfaceLists(d)]) : interface_configs' = c
        /\ pc' = "loop"
        /\ UNCHANGED <<vlan_config, routing_config>>
     \/ /\ workflow = "vlans"
        /\ \E c \in Mappings([d \in Devices |-> SubinterfaceLists(d)]) : vlan_config' = c
        /\ pc' = "loop"
        /\ UNCHANGED <<interface_configs, routing_config>>
     \/ /\ workflow = "routing"
        /\ \E c \in RoutingConfigs : routing_config' = c
        /\ pc' = "check_enabled"
        /\ UNCHANGED <<interface_configs, vlan_config>>
     \/ /\ workflow = "backup"
        /\ pc' = "loop"
        /\ UNCHANGED <<interface_configs, vlan_config, routing_config>>
  /\ UNCHANGED exit_status

\* load_config_files / load_inventory with files that hold every field and
\* key the scripts read
load_config_files ==
  /\ pc = "load"
  /\ \/ UnreadableFiles
     \/ /\ ParsedFiles
        /\ missing_field' = {}
        /\ missing_key' = FALSE
  /\ UNCHANGED <<idx, k, countVars, devVars, localVars, fsVars, envVars>>

\* load_config_files / load_inventory with malformed files: unreadable, or
\* parsed as they are, with an inventory entry that has no 'ip' or an ospf
\* section that has no 'process_id'; what is parsed is not validated
load_malformed_files ==
  /\ pc = "load"
  /\ \/ UnreadableFiles
     \/ /\ ParsedFiles
        /\ \/ /\ \E d \in Devices : missing_field' = {d}
              /\ missing_key' = FALSE
           \/ /\ workflow = "routing"
              /\ missing_field' = {}
              /\ missing_key' = TRUE
  /\ UNCHANGED <<idx, k, countVars, devVars, localVars, fsVars, envVars>>

\* configure_routing.main: return 0 when neither protocol is enabled
main_check_enabled ==
  /\ pc = "check_enabled"
  /\ IF routing_config.ospf.enabled \/ routing_config.eigrp.enabled
       THEN pc' = "loop" /\ UNCHANGED exit_status
       ELSE pc' = "exit" /\ exit_status' = 0
  /\ UNCHANGED <<idx, k, cfgVars, countVars, devVars, localVars, fsVars, envVars>>

\* main_skip_router with the router that is passed over counted as a failure
main_skip_router_counted ==
  /\ pc = "loop" /\ InLoop
  /\ workflow = "interfaces"
  /\ interface_configs[router] = <<>>
  /\ outcome' = [outcome EXCEPT ![router] = "skipped"]
  /\ fail_count' = fail_count + 1
  /\ idx' = idx + 1
  /\ UNCHANGED <<pc, k, cfgVars, success_count, successful_backups,
                 exit_status, devVars, localVars, fsVars, envVars>>

\* configure_interfaces.main: a router with no interface list is passed over
\* with a warning ("continue"), before any connection
main_skip_router ==
  /\ pc = "loop" /\ InLoop
  /\ workflow = "interfaces"
  /\ interface_configs[router] = <<>>
  /\ outcome' = [outcome EXCEPT ![router] = "skipped"]
  /\ idx' = idx + 1
  /\ UNCHANGED <<pc, k, cfgVars, success_count, fail_count, successful_backups,
                 exit_status, devVars, localVars, fsVars, envVars>>

\* main: the per-router function is called for the next router; it builds
\* device_params before its try block, so a KeyError on router['ip'] leaves
\* main and ends the process with a traceback and status 1
main_next_router ==
  /\ pc = "loop" /\ InLoop
  /\ workflow = "interfaces" => interface_configs[router] # <<>>
  /\ IF router \in missing_field
       THEN pc' = "fatal" /\ exit_status' = 1
       ELSE pc' = "connect" /\ UNCHANGED exit_status
  /\ UNCHANGED <<idx, k, cfgVars, countVars, devVars, localVars, fsVars, envVars>>


\* ------------------------------------------- the per-router function
\* where the function goes once the session is open and elevated
AfterConnect ==
  CASE workflow = "interfaces" -> "apply"
    [] workflow = "vlans" ->
         IF vlan_config[router] = <<>> THEN "disconnect" ELSE "apply"
    [] workflow = "routing" ->
         IF routing_config.ospf.enabled THEN "ospf"
         ELSE IF routing_config.eigrp.enabled THEN "eigrp" ELSE "verify"
    [] workflow = "backup" -> "show_run"

\* ConnectHandler(**device_params); device.enable(): either may raise, and the
\* except clause returns False
session_open ==
  /\ pc = "connect"
  /\ \/ /\ Log(router, <<Call("ConnectHandler", "open", <<>>, FALSE)>>)
        /\ UNCHANGED session
        /\ ReturnFalse
     \/ /\ Log(router, <<Call("ConnectHandler", "open", <<>>, TRUE),
                         Call("enable", "open", <<>>, FALSE)>>)
        /\ session' = [session EXCEPT ![router] = "open"]
        /\ ReturnFalse
     \/ /\ Log(router, <<Call("ConnectHandler", "open", <<>>, TRUE),
                         Call("enable", "open", <<>>, TRUE)>>)
        /\ session' = [session EXCEPT ![router] = "open"]
        /\ pc' = AfterConnect
        /\ UNCHANGED <<idx, k, countVars>>
  /\ UNCHANGED <<cfgVars, exit_status, localVars, fsVars, envVars>>

\* the router's entries the inner for loop walks
Entries ==
  IF workflow = "interfaces" THEN interface_configs[router] ELSE vlan_config[router]

\* configure_interface / configure_subinterface build the command list and
\* call send_config_set; an exception is caught there and False is returned
EntryCommands(entry) ==
  IF workflow = "interfaces" THEN InterfaceCommands(entry) ELSE SubinterfaceCommands(entry)

EntryFeature == IF workflow = "interfaces" THEN "interface" ELSE "subinterface"

\* AfterApply with a command set that failed submitted once more, unless the
\* call before it had failed too
AfterApplyRetriesOnce(ok) ==
  IF ~ok /\ transcript[router][Len(transcript[router])].ok
    THEN UNCHANGED <<k, pc>>
    ELSE IF k < Len(Entries)
           THEN k' = k + 1 /\ UNCHANGED pc
           ELSE k' = 1 /\ pc' = (IF workflow = "interfaces" THEN "save" ELSE "verify")

\* the body of "for interface in interface_configs" / "for subintf in
\* subinterfaces": the result of the call is printed and logged, and the loop
\* goes on to the next entry
AfterApply(ok) ==
  IF k < Len(Entries)
    THEN k' = k + 1 /\ UNCHANGED pc
    ELSE k' = 1 /\ pc' = (IF workflow = "interfaces" THEN "save" ELSE "verify")

configure_entry ==
  /\ pc = "apply"
  /\ \E ok \in BOOLEAN :
       /\ Submit(router, "send_config_set", EntryFeature, EntryCommands(Entries[k]), ok)
       /\ AfterApply(ok)
  /\ UNCHANGED <<idx, cfgVars, countVars, exit_status, session, localVars,
                 fsVars, envVars>>

\* configure_routing.connect_and_configure, "if ...get('ospf')...get('enabled')":
\* success is assigned and printed, and the function goes on
AfterOspf(ok) ==
  pc' = (IF routing_config.eigrp.enabled THEN "eigrp" ELSE "verify")

\* configure_ospf is called inside the try block of connect_and_configure and
\* reads ospf_config['process_id'] before its own try block: a KeyError
\* reaches the except clause of connect_and_configure, which returns False
configure_ospf ==
  /\ pc = "ospf"
  /\ IF missing_key
       THEN /\ ReturnFalse
            /\ UNCHANGED transcript
       ELSE /\ \E ok \in BOOLEAN :
                 /\ Submit(router, "send_config_set", "ospf",
                           OspfCommands(router, routing_config.ospf), ok)
                 /\ AfterOspf(ok)
            /\ UNCHANGED <<idx, k, countVars>>
  /\ UNCHANGED <<cfgVars, exit_status, session, localVars, fsVars, envVars>>

\* configure_routing.connect_and_configure, "if ...get('eigrp')...get('enabled')"
AfterEigrp(ok) == pc' = "verify"

configure_eigrp ==
  /\ pc = "eigrp"
  /\ \E ok \in BOOLEAN :
       /\ Submit(router, "send_config_set", "eigrp",
                 EigrpCommands(router, routing_config.eigrp), ok)
       /\ AfterEigrp(ok)
  /\ UNCHANGED <<idx, k, cfgVars, countVars, exit_status, session, localVars,
                 fsVars, envVars>>

\* the read-only command after the last apply
VerifyCommand ==
  IF workflow = "vlans" THEN <<"show ip interface brief | include \\.">>
  ELSE <<"show ip route">>

\* device.send_command(<verification>): it returns, or it raises and the
\* except clause returns False
verify ==
  /\ pc = "verify"
  /\ \/ /\ Submit(router, "send_command", "verify", <<VerifyCommand>>, TRUE)
        /\ pc' = "save"
        /\ UNCHANGED <<idx, k, countVars>>
     \/ /\ Submit(router, "send_command", "verify", <<VerifyCommand>>, FALSE)
        /\ ReturnFalse
  /\ UNCHANGED <<cfgVars, exit_status, session, localVars, fsVars, envVars>>

\* device.send_command("write memory")
save ==
  /\ pc = "save"
  /\ \/ /\ Submit(router, "send_command", "save", << <<"write memory">> >>, TRUE)
        /\ pc' = "disconnect"
        /\ UNCHANGED <<idx, k, countVars>>
     \/ /\ Submit(router, "send_command", "save", << <<"write memory">> >>, FALSE)
        /\ ReturnFalse
  /\ UNCHANGED <<cfgVars, exit_status, session, localVars, fsVars, envVars>>


\* ----------------------------------------------------------------- backup
\* what "show running-config" and "show version | include Version" return
\* over the session of router d
ConfigText(d, v) == d * 10 + v
VersionLine(d) == d

\* datetime.now().strftime(...): the clock reading cut to the whole second
Strftime(t) == t \div 2

\* f"{router['name']}_{timestamp}.txt" and f"{router['name']}_latest.txt"
TimestampedName(d, ts) == <<d, "_", ts, ".txt">>
LatestName(d) == <<d, "_latest.txt">>

\* the seven header writes and the write of running_config, lines 89-96 and
\* 100-107; date is the clock reading taken inside the with block
BackupContent(date, d, version, text) ==
  << <<"! Backup Date: ", date>>, <<"! Router: ", d>>, <<"! IP Address: ", RouterIp(d)>>,
     <<"! ", version>>, <<"!">>, <<"! ----">>, <<"!">>, <<"", text>> >>
HeaderLen == 7

\* WriteFile with the file opened in mode 'a': what it held is kept
WriteFileAppends(name, chunks) ==
  files' = (name :> ((IF name \in DOMAIN files THEN files[name] ELSE <<>>) \o chunks)) @@ files

\* open(path, 'w') and the writes: the file is created or truncated and gets
\* the chunks written before the with block is left
WriteFile(name, chunks) == files' = (name :> chunks) @@ files

\* device.send_command("show running-config")
backup_show_run ==
  /\ pc = "show_run"
  /\ \/ /\ \E v \in 1..NumTexts : running_config' = ConfigText(router, v)
        /\ Submit(router, "send_command", "backup", << <<"show running-config">> >>, TRUE)
        /\ pc' = "show_version"
        /\ UNCHANGED <<idx, k, countVars>>
     \/ /\ Submit(router, "send_command", "backup", << <<"show running-config">> >>, FALSE)
        /\ UNCHANGED running_config
        /\ ReturnFalse
  /\ UNCHANGED <<cfgVars, exit_status, session, version_info, timestamp, fsVars,
                 envVars>>

\* device.send_command("show version | include Version")
backup_show_version ==
  /\ pc = "show_version"
  /\ \/ /\ version_info' = VersionLine(router)
        /\ Submit(router, "send_command", "backup",
                  << <<"show version | include Version">> >>, TRUE)
        /\ pc' = "show_hostname"
        /\ UNCHANGED <<idx, k, countVars>>
     \/ /\ Submit(router, "send_command", "backup",
                  << <<"show version | include Version">> >>, FALSE)
        /\ UNCHANGED version_info
        /\ ReturnFalse
  /\ UNCHANGED <<cfgVars, exit_status, session, running_config, timestamp,
                 fsVars, envVars>>

\* device.send_command("show run | include hostname"), then lines 78-84: the
\* timestamp is taken once and both file names are built
backup_show_hostname ==
  /\ pc = "show_hostname"
  /\ \/ /\ Submit(router, "send_command", "backup",
                  << <<"show run | include hostname">> >>, TRUE)
        /\ timestamp' = Strftime(now)
        /\ pc' = "write_file"
        /\ UNCHANGED <<idx, k, countVars>>
     \/ /\ Submit(router, "send_command", "backup",
                  << <<"show run | include hostname">> >>, FALSE)
        /\ UNCHANGED timestamp
        /\ ReturnFalse
  /\ UNCHANGED <<cfgVars, exit_status, session, running_config, version_info,
                 fsVars, envVars>>

\* how much of a file is on disk when a write raises: nothing, or the header
PartialLengths == {0, HeaderLen}

\* "with open(path, 'w') as f" and the eight writes: open raises and the file
\* is untouched, a write raises and the file is left cut short, or all is
\* written; the date of the header is read from the clock inside the block
WriteBackup(name, good, bad) ==
  LET chunks == BackupContent(Strftime(now), router, version_info, running_config)
  IN \/ /\ Submit(router, "open", "capture", <<name>>, FALSE)
        /\ UNCHANGED files
        /\ bad
     \/ /\ Submit(router, "write", "capture", <<name>>, FALSE)
        /\ \E n \in PartialLengths : WriteFile(name, SubSeq(chunks, 1, n))
        /\ bad
     \/ /\ Submit(router, "write", "capture", <<name>>, TRUE)
        /\ WriteFile(name, chunks)
        /\ good

\* lines 88-96: the timestamped file
backup_write_file ==
  /\ pc = "write_file"
  /\ WriteBackup(TimestampedName(router, timestamp),
                 pc' = "write_latest" /\ UNCHANGED <<idx, k, countVars>>,
                 ReturnFalse)
  /\ UNCHANGED <<cfgVars, exit_status, session, localVars, index, index_exists, envVars>>

\* lines 99-107: the latest file
backup_write_latest ==
  /\ pc = "write_latest"
  /\ WriteBackup(LatestName(router),
                 pc' = "disconnect" /\ UNCHANGED <<idx, k, countVars>>,
                 ReturnFalse)
  /\ UNCHANGED <<cfgVars, exit_status, session, localVars, index, index_exists, envVars>>

\* backup_configs.main: "if success: success_count += 1;
\* successful_backups.append((router['name'], filename))"
BackupReturnTrue ==
  /\ success_count' = success_count + 1
  /\ successful_backups' =
       Append(successful_backups, <<router, TimestampedName(router, timestamp)>>)
  /\ outcome' = [outcome EXCEPT ![router] = "success"]
  /\ idx' = idx + 1
  /\ k' = 1
  /\ pc' = "loop"
  /\ UNCHANGED fail_count

\* device.disconnect(), which netmiko does not let raise, and "return True"
disconnect ==
  /\ pc = "disconnect"
  /\ session' = [session EXCEPT ![router] = "closed"]
  /\ IF workflow = "backup" THEN BackupReturnTrue ELSE ReturnTrue
  /\ UNCHANGED <<cfgVars, exit_status, transcript, localVars, fsVars, envVars>>

\* BackupIndex with the new entries added to those README.md already had
BackupIndexMerged(backups) ==
  [updated |-> Strftime(now),
   latest |-> index.latest
              \o [i \in 1..Len(backups) |-> <<backups[i][1], backups[i][2], backups[i][2]>>]]

\* create_backup_index: README.md is rewritten from the list it is given
BackupIndex(backups) ==
  [updated |-> Strftime(now),
   latest |-> [i \in 1..Len(backups) |-> <<backups[i][1], backups[i][2], backups[i][2]>>]]

\* backup_configs.main, "if successful_backups:"
IndexIsWritten(backups) == backups # <<>>

\* the end of main: the backup index, the summary and the return value
main_summary ==
  /\ pc = "loop" /\ ~InLoop
  /\ IF workflow = "backup" /\ IndexIsWritten(successful_backups)
       THEN index' = BackupIndex(successful_backups) /\ index_exists' = TRUE
       ELSE UNCHANGED <<index, index_exists>>
  /\ exit_status' = ExitStatus(fail_count)
  /\ pc' = "exit"
  /\ UNCHANGED <<idx, k, cfgVars, countVars, devVars, localVars, files, envVars>>

\* ------------------------------------------------------ the environment
\* the wall clock advances
Tick ==
  /\ now < MaxClock
  /\ now' = now + 1
  /\ UNCHANGED <<workflow, credentials, pc, idx, k, cfgVars, countVars, exit_status,
                 devVars, localVars, fsVars, run, files_at_start, index_at_start>>

NoIndex == [updated |-> 0, latest |-> <<>>]

\* the state a fresh process starts in
ProcessStart ==
  /\ pc = "start"
  /\ idx = 1
  /\ k = 1
  /\ interface_configs = NoEntries
  /\ vlan_config = NoEntries
  /\ routing_config = NoRouting
  /\ missing_field = {}
  /\ missing_key = FALSE
  /\ success_count = 0
  /\ fail_count = 0
  /\ successful_backups = <<>>
  /\ exit_status = 0
  /\ session = [d \in Devices |-> "none"]
  /\ transcript = [d \in Devices |-> <<>>]
  /\ outcome = [d \in Devices |-> "pending"]
  /\ running_config = 0
  /\ version_info = 0
  /\ timestamp = 0

\* the backup script is invoked again over the backup directory it left
NewRun ==
  /\ pc \in {"exit", "fatal"}
  /\ run < MaxRuns
  /\ run' = run + 1
  /\ files_at_start' = files
  /\ index_at_start' = [exists |-> index_exists, document |-> index]
  /\ pc' = "start"
  /\ idx' = 1
  /\ k' = 1
  /\ interface_configs' = NoEntries
  /\ vlan_config' = NoEntries
  /\ routing_config' = NoRouting
  /\ missing_field' = {}
  /\ missing_key' = FALSE
  /\ success_count' = 0
  /\ fail_count' = 0
  /\ successful_backups' = <<>>
  /\ exit_status' = 0
  /\ session' = [d \in Devices |-> "none"]
  /\ transcript' = [d \in Devices |-> <<>>]
  /\ outcome' = [d \in Devices |-> "pending"]
  /\ running_config' = 0
  /\ version_info' = 0
  /\ timestamp' = 0
  /\ UNCHANGED <<workflow, credentials, fsVars, now>>

Init ==
  /\ workflow \in Workflows
  /\ credentials \in SUBSET CredentialNames
  /\ ProcessStart
  /\ files = <<>>
  /\ index = NoIndex
  /\ index_exists = FALSE
  /\ now = 0
  /\ run = 1
  /\ files_at_start = <<>>
  /\ index_at_start = [exists |-> FALSE, document |-> NoIndex]

InitBackup == Init /\ workflow = "backup"

\* one run of any of the four scripts
Next ==
  \/ main_check_credentials
  \/ load_config_files
  \/ main_check_enabled
  \/ main_skip_router
  \/ main_next_router
  \/ session_open
  \/ configure_entry
  \/ configure_ospf
  \/ configure_eigrp
  \/ verify
  \/ save
  \/ backup_show_run
  \/ backup_show_version
  \/ backup_show_hostname
  \/ backup_write_file
  \/ backup_write_latest
  \/ disconnect
  \/ main_summary

\* runs of the backup script, one after the other, while the clock advances
NextBackup ==
  \/ main_check_credentials
  \/ load_config_files
  \/ main_next_router
  \/ session_open
  \/ backup_show_run
  \/ backup_show_version
  \/ backup_show_hostname
  \/ backup_write_file
  \/ backup_write_latest
  \/ disconnect
  \/ main_summary
  \/ Tick
  \/ NewRun

\* one run of any of the four scripts over malformed declarative input
NextMalformed ==
  \/ main_check_credentials
  \/ load_malformed_files
  \/ main_check_enabled
  \/ main_skip_router
  \/ main_next_router
  \/ session_open
  \/ configure_entry
  \/ configure_ospf
  \/ configure_eigrp
  \/ verify
  \/ save
  \/ backup_show_run
  \/ backup_show_version
  \/ backup_show_hostname
  \/ backup_write_file
  \/ backup_write_latest
  \/ disconnect
  \/ main_summary

Spec == Init /\ [][Next]_vars
SpecMalformed == Init /\ [][NextMalformed]_vars
SpecBackup == InitBackup /\ [][NextBackup]_vars


\* ================================================================ claims
Calls(d) == {transcript[d][i] : i \in DOMAIN transcript[d]}
Attempted(d) == \E c \in Calls(d) : c.call = "ConnectHandler"
Recorded(d) == outcome[d] \in {"success", "failure"}
\* main has returned after walking the whole inventory
RunCompleted == pc = "exit" /\ idx > NumDevices
\* a call made for the router raised
StepFailed(d) == \E c \in Calls(d) : ~c.ok
ApplyFailed(d) == \E c \in Calls(d) : c.call = "send_config_set" /\ ~c.ok
VerifyFailed(d) == \E c \in Calls(d) : c.feature = "verify" /\ ~c.ok
Saved(d) == \E c \in Calls(d) : c.feature = "save" /\ c.ok
ConfigWorkflow == workflow \in {"interfaces", "vlans", "routing"}

\* the routers the run of the workflow is for: those with an interface list
\* in the interfaces workflow, none when routing.yml enables no protocol,
\* the whole inventory otherwise
Applicable ==
  CASE workflow = "interfaces" -> {d \in Devices : interface_configs[d] # <<>>}
    [] workflow = "routing" ->
         IF routing_config.ospf.enabled \/ routing_config.eigrp.enabled
           THEN Devices ELSE {}
    [] OTHER -> Devices

\* C1 as stated: when main returns, every router of the inventory has had a
\* session attempt and has a success or failure recorded, whatever failed
\* for the others
C1_EveryDeviceAttempted ==
  pc = "exit" => \A d \in Devices : Attempted(d) /\ Recorded(d)

\* C1 amended: when main returns, every router the workflow is for has had a
\* session attempt and has a success or failure recorded, whatever failed
\* for the others; the routers it is not for have had no session attempt and
\* no success or failure recorded
C1_EveryApplicableDeviceAttempted ==
  pc = "exit" =>
    /\ \A d \in Applicable : Attempted(d) /\ Recorded(d)
    /\ \A d \in Devices \ Applicable : ~Attempted(d) /\ ~Recorded(d)

\* C1 witness: the run has ended, the session open of one router failed and
\* a later router was attempted and succeeded
C1_Witness ==
  /\ pc = "exit"
  /\ \E d1, d2 \in Devices :
       /\ d1 < d2
       /\ outcome[d1] = "failure" /\ session[d1] = "none"
       /\ Attempted(d2) /\ outcome[d2] = "success"

\* C2: when main returns after the device loop, the exit status is 0 exactly
\* when no step (open, apply, verify, save, capture) failed for any router
C2_ExitStatusReflectsFailures ==
  RunCompleted => (exit_status = 0 <=> \A d \in Devices : ~StepFailed(d))

\* C3: when main returns after the device loop, fail_count is the number of
\* attempted routers that did not get through every step to a closed session
C3_FailCountIsNotDone ==
  RunCompleted =>
    fail_count = Cardinality({d \in Devices :
                   Attempted(d) /\ ~(session[d] = "closed" /\ ~StepFailed(d))})

\* C4: a router for which a send_config_set failed is never recorded as a
\* success
C4_ApplyFailureFailsDevice ==
  \A d \in Devices : ApplyFailed(d) => outcome[d] # "success"

\* C5: once a router's outcome is recorded its session is not open
C5_SessionReleased ==
  \A d \in Devices : Recorded(d) => session[d] # "open"

\* the router has no entry in the declarative mapping of the workflow
Absent(d) ==
  CASE workflow = "interfaces" -> interface_configs[d] = <<>>
    [] workflow = "vlans" -> vlan_config[d] = <<>>
    [] workflow = "routing" ->
         /\ routing_config.ospf.enabled => routing_config.ospf.areas[d] = <<>>
         /\ routing_config.eigrp.enabled => routing_config.eigrp.networks[d] = <<>>
    [] OTHER -> FALSE

\* C6: in the configuration workflows a router that is absent from the
\* mapping is never recorded as a failure
C6_AbsentNeverFailure ==
  ConfigWorkflow => \A d \in Devices : Absent(d) => outcome[d] # "failure"

\* the router has no entry for the feature a command set belongs to
NoEntryFor(d, feature) ==
  CASE feature = "interface" -> interface_configs[d] = <<>>
    [] feature = "subinterface" -> vlan_config[d] = <<>>
    [] feature = "ospf" -> routing_config.ospf.areas[d] = <<>>
    [] feature = "eigrp" -> routing_config.eigrp.networks[d] = <<>>
    [] OTHER -> FALSE

\* C7: no command of a feature is submitted to a router that has no entry
\* for the feature
C7_NoEntryNoCommand ==
  \A d \in Devices : \A c \in Calls(d) :
    (c.call = "send_config_set" /\ NoEntryFor(d, c.feature)) => c.commands = <<>>

\* C8: no encapsulation command with a VLAN id outside 1..4094 is submitted
C8_VlanValidated ==
  \A d \in Devices : \A c \in Calls(d) :
    c.call = "send_config_set" =>
      \A i \in DOMAIN c.commands :
        c.commands[i][1] = "encapsulation dot1Q" => c.commands[i][2] \in 1..4094

\* C9: a router whose applies all succeeded and whose verification command
\* failed is saved, closed and recorded as a success
C9_VerifyFailureIgnored ==
  \A d \in Devices :
    (Recorded(d) /\ VerifyFailed(d) /\ ~ApplyFailed(d)) =>
      (outcome[d] = "success" /\ Saved(d) /\ session[d] = "closed")

\* the routers whose backup succeeded in this run, the files written in full
\* for a router in this run, and the entries of the Latest Backups section
Succeeded == {d \in Devices : outcome[d] = "success"}
WrittenThisRun(d) ==
  {c.commands[1] : c \in {x \in Calls(d) : x.call = "write" /\ x.ok}}
LatestSection == {index.latest[i] : i \in DOMAIN index.latest}
ListsThisRun ==
  /\ Len(index.latest) = Cardinality(Succeeded)
  /\ \A d \in Succeeded : \E e \in LatestSection : e[1] = d
  /\ \A e \in LatestSection :
       /\ e[1] \in Succeeded
       /\ e[2] = e[3]
       /\ e[2] # LatestName(e[1])
       /\ e[2] \in WrittenThisRun(e[1])

Body(name) == SubSeq(files[name], HeaderLen + 1, Len(files[name]))
\* the file was written to its end
Complete(content) == Len(content) = HeaderLen + 1

\* C11: when a capture has written both files, the timestamped file named
\* <router>_<timestamp>.txt and <router>_latest.txt each hold, after the
\* header, the text read by "show running-config" and nothing else, whatever
\* <router>_latest.txt held before; and for every router that succeeded in
\* the run the latest file has the body of the file the run recorded for it
C11_BackupRoundTrip ==
  /\ (workflow = "backup" /\ pc = "disconnect") =>
       /\ TimestampedName(router, timestamp) \in DOMAIN files
       /\ Body(TimestampedName(router, timestamp)) = << <<"", running_config>> >>
       /\ LatestName(router) \in DOMAIN files
       /\ Body(LatestName(router)) = << <<"", running_config>> >>
  /\ \A i \in DOMAIN successful_backups :
       LET d == successful_backups[i][1]
           filename == successful_backups[i][2]
       IN /\ filename \in DOMAIN files
          /\ filename[1] = d
          /\ LatestName(d) \in DOMAIN files
          /\ Len(Body(filename)) = 1
          /\ Body(LatestName(d)) = Body(filename)

\* C11 witness: a capture of a later run has written both files of a router
\* whose latest file held another text, written in full, when the run began
C11_Witness ==
  /\ workflow = "backup" /\ pc = "disconnect" /\ run > 1
  /\ LatestName(router) \in DOMAIN files_at_start
  /\ Complete(files_at_start[LatestName(router)])
  /\ files_at_start[LatestName(router)][HeaderLen + 1] # <<"", running_config>>

\* a name built by line 79 (router, "_", timestamp, ".txt"), as against
\* the name of a latest file
IsTimestamped(name) == Len(name) = Len(TimestampedName(1, 0))

\* C12: a timestamped file that has been written in full is never modified
\* or removed by any later step, of this run or of a later one
C12_SnapshotsImmutable ==
  [][\A name \in DOMAIN files :
       (IsTimestamped(name) /\ Complete(files[name])) =>
         (name \in DOMAIN files' /\ files'[name] = files[name])]_vars

\* no call has been made for any router, no session is open, and the backup
\* directory is as the run found it
NothingTouched ==
  /\ \A d \in Devices : transcript[d] = <<>> /\ session[d] = "none"
  /\ files = files_at_start
  /\ index_at_start = [exists |-> index_exists, document |-> index]

\* C13: in every workflow, when one of the three credentials is not set the
\* process is either still at its start or has ended with a non-zero status,
\* and no session has been opened and no file written
C13_CredentialsFatal ==
  credentials # CredentialNames =>
    /\ pc \in {"start", "fatal"}
    /\ (pc = "fatal" => exit_status # 0)
    /\ NothingTouched

\* C13 witness: the process has ended with status 1 with exactly one of the
\* credentials not set
C13_Witness ==
  /\ pc = "fatal"
  /\ exit_status = 1
  /\ Cardinality(CredentialNames \ credentials) = 1

\* the declarative input the run loaded lacks a field or key the scripts read
Malformed == missing_field # {} \/ missing_key

\* C14: in a run whose declarative input is malformed no session is opened
\* for any router, and the run does not end with status 0
C14_MalformedInputFatal ==
  Malformed =>
    /\ \A d \in Devices : ~Attempted(d)
    /\ (pc \in {"exit", "fatal"} => exit_status # 0)

\* the command sets of a feature submitted to router d, in order
FeatureCalls(d, feature) ==
  SelectSeq(transcript[d], LAMBDA c : c.call = "send_config_set" /\ c.feature = feature)

\* C15: the i-th command set submitted for the interfaces of a router is that
\* of the i-th interface entry of the router: interface-select, address,
\* description and admin state, in this order, the admin state being
\* "no shutdown" when 'enabled' is true or left out and "shutdown" otherwise
C15_InterfaceCommandOrder ==
  workflow = "interfaces" =>
    \A d \in Devices :
      LET calls == FeatureCalls(d, "interface")
      IN /\ Len(calls) <= Len(interface_configs[d])
         /\ \A i \in DOMAIN calls :
              LET entry == interface_configs[d][i]
                  commands == calls[i].commands
              IN /\ Len(commands) = 4
                 /\ commands[1] = <<"interface", entry.name>>
                 /\ commands[2] = <<"ip address", entry.ip_address, entry.subnet_mask>>
                 /\ commands[3] = <<"description", entry.description>>
                 /\ commands[4] = (IF entry.enabled = "true" \/ entry.enabled = "omitted"
                                     THEN <<"no shutdown">> ELSE <<"shutdown">>)

\* C15 witness: command sets were submitted for an interface entry with
\* 'enabled' false and for one with 'enabled' left out
C15_Witness ==
  /\ workflow = "interfaces"
  /\ \E d \in Devices : \E i \in DOMAIN FeatureCalls(d, "interface") :
       interface_configs[d][i].enabled = "false"
  /\ \E d \in Devices : \E i \in DOMAIN FeatureCalls(d, "interface") :
       interface_configs[d][i].enabled = "omitted"

\* the number of networks in the first a areas of a list
RECURSIVE NetworksBefore(_, _)
NetworksBefore(areas, a) ==
  IF a = 0 THEN 0 ELSE NetworksBefore(areas, a - 1) + Len(areas[a].networks)

\* C16: the OSPF command set submitted to a router is the process entry,
\* then the router-id line exactly when router_id_map has an entry for the
\* router, then one network statement for each network of each area listed
\* for the router, areas in list order and networks in list order within
\* their area, and nothing else
C16_OspfCommandOrder ==
  workflow = "routing" =>
    \A d \in Devices : \A c \in Calls(d) :
      (c.call = "send_config_set" /\ c.feature = "ospf") =>
        LET ospf == routing_config.ospf
            areas == ospf.areas[d]
            has_id == d \in ospf.router_id_map
            first == IF has_id THEN 2 ELSE 1
        IN /\ c.commands[1] = <<"router ospf", ospf.process_id>>
           /\ has_id => c.commands[2] = <<"router-id", RouterIp(d)>>
           /\ ~has_id => \A i \in DOMAIN c.commands : c.commands[i][1] # "router-id"
           /\ Len(c.commands) = first + NetworksBefore(areas, Len(areas))
           /\ \A a \in DOMAIN areas : \A n \in DOMAIN areas[a].networks :
                c.commands[first + NetworksBefore(areas, a - 1) + n] =
                  <<"network", areas[a].networks[n].network, areas[a].networks[n].wildcard,
                    "area", areas[a].area>>

\* C16 witness: OSPF command sets were submitted to a router that has a
\* router id and to one that has none, each with several areas, one of them
\* with several networks
C16_Witness ==
  /\ workflow = "routing"
  /\ \E d1, d2 \in Devices :
       /\ d1 \in routing_config.ospf.router_id_map
       /\ d2 \notin routing_config.ospf.router_id_map
       /\ \A d \in {d1, d2} :
            /\ FeatureCalls(d, "ospf") # <<>>
            /\ Len(routing_config.ospf.areas[d]) > 1
            /\ \E a \in DOMAIN routing_config.ospf.areas[d] :
                 Len(routing_config.ospf.areas[d][a].networks) > 1

\* C17: the EIGRP command set submitted to a router is fixed by the router
\* and the eigrp section alone: the process entry, then "no auto-summary"
\* whether or not the router has networks, then one network statement for
\* each network listed for the router, in list order, and nothing else
C17_EigrpCommandOrder ==
  workflow = "routing" =>
    \A d \in Devices : \A c \in Calls(d) :
      (c.call = "send_config_set" /\ c.feature = "eigrp") =>
        LET eigrp == routing_config.eigrp
            networks == eigrp.networks[d]
        IN /\ Len(c.commands) = 2 + Len(networks)
           /\ c.commands[1] = <<"router eigrp", eigrp.as_number>>
           /\ c.commands[2] = <<"no auto-summary">>
           /\ \A n \in DOMAIN networks :
                c.commands[2 + n] = <<"network", networks[n].network, networks[n].wildcard>>

\* C17 witness: EIGRP command sets were submitted to a router with several
\* networks and to a router with none
C17_Witness ==
  /\ workflow = "routing"
  /\ \E d1, d2 \in Devices :
       /\ FeatureCalls(d1, "eigrp") # <<>>
       /\ Len(routing_config.eigrp.networks[d1]) > 1
       /\ FeatureCalls(d2, "eigrp") # <<>>
       /\ routing_config.eigrp.networks[d2] = <<>>

Range(seq) == {seq[i] : i \in DOMAIN seq}

\* the commands that carry a value of a declarative entry keyed by router d
OwnCommands(d) ==
  UNION {{<<"interface", e.name>>, <<"ip address", e.ip_address, e.subnet_mask>>,
          <<"description", e.description>>} : e \in Range(interface_configs[d])}
  \cup UNION {{<<"interface", e.interface>>, <<"encapsulation dot1Q", e.vlan>>,
               <<"ip address", e.ip_address, e.subnet_mask>>,
               <<"description", e.description>>} : e \in Range(vlan_config[d])}
  \cup UNION {{<<"network", n.network, n.wildcard, "area", a.area>> : n \in Range(a.networks)} :
                a \in Range(routing_config.ospf.areas[d])}
  \cup {<<"network", n.network, n.wildcard>> : n \in Range(routing_config.eigrp.networks[d])}
  \cup (IF d \in routing_config.ospf.router_id_map
          THEN {<<"router-id", RouterIp(d)>>} ELSE {})

\* the commands that carry no value keyed by a router
SharedCommands ==
  {<<"no shutdown">>, <<"shutdown">>, <<"no auto-summary">>,
   <<"router ospf", routing_config.ospf.process_id>>,
   <<"router eigrp", routing_config.eigrp.as_number>>}

\* C18: every command of a command set submitted over the session of a
\* router is built from the declarative entries keyed by that router or
\* carries no entry's value at all; and every file named for a router holds
\* that router's name and address, and the version line and a configuration
\* text read over that router's session
C18_NoCrossDeviceLeakage ==
  /\ \A d \in Devices :
       LET allowed == OwnCommands(d) \cup SharedCommands
       IN \A n \in DOMAIN transcript[d] :
            LET c == transcript[d][n]
            IN c.call = "send_config_set" =>
                 \A i \in DOMAIN c.commands : c.commands[i] \in allowed
  /\ \A name \in DOMAIN files :
       LET d == name[1]
           content == files[name]
       IN \A i \in DOMAIN content :
            /\ i = 2 => content[i] = <<"! Router: ", d>>
            /\ i = 3 => content[i] = <<"! IP Address: ", RouterIp(d)>>
            /\ i = 4 => content[i] = <<"! ", VersionLine(d)>>
            /\ i = HeaderLen + 1 =>
                 \E v \in 1..NumTexts : content[i] = <<"", ConfigText(d, v)>>

\* C18 witness: OSPF command sets with network statements were submitted to
\* two routers, of which only one has a router id
C18_Witness ==
  /\ workflow = "routing"
  /\ \E d1, d2 \in Devices :
       /\ d1 # d2
       /\ d1 \in routing_config.ospf.router_id_map
       /\ d2 \notin routing_config.ospf.router_id_map
       /\ \A d \in {d1, d2} :
            \E c \in Range(FeatureCalls(d, "ospf")) :
              \E i \in DOMAIN c.commands : c.commands[i][1] = "network"

\* C19: a command set whose submission failed is the last call made for its
\* router in the run
C19_FirstFailureTerminal ==
  \A d \in Devices : \A i \in DOMAIN transcript[d] :
    (transcript[d][i].call = "send_config_set" /\ ~transcript[d][i].ok) =>
      i = Len(transcript[d])

\* the number of command sets the workflow has for router d
CommandSetsDue(d) ==
  CASE workflow = "interfaces" -> Len(interface_configs[d])
    [] workflow = "vlans" -> Len(vlan_config[d])
    [] workflow = "routing" ->
         (IF routing_config.ospf.enabled THEN 1 ELSE 0)
         + (IF routing_config.eigrp.enabled THEN 1 ELSE 0)
    [] OTHER -> 0

\* C20: in the configuration workflows the calls made for a router recorded
\* as a success are, in order: the session open and the elevation, every
\* command set the workflow has for the router, each applied, a verification
\* command after the last of them, the save command after the verification;
\* and the session is closed
C20_SuccessPassedEveryState ==
  ConfigWorkflow =>
    \A d \in Devices :
      outcome[d] = "success" =>
        LET t == transcript[d]
            applies == {i \in DOMAIN t : t[i].call = "send_config_set"}
            verifies == {i \in DOMAIN t : t[i].feature = "verify" /\ t[i].ok}
            saves == {i \in DOMAIN t : t[i].feature = "save" /\ t[i].ok}
        IN /\ Len(t) >= 2
           /\ t[1].call = "ConnectHandler" /\ t[1].ok
           /\ t[2].call = "enable" /\ t[2].ok
           /\ Cardinality(applies) = CommandSetsDue(d)
           /\ \A i \in applies : i > 2 /\ t[i].ok
           /\ \E v \in verifies :
                /\ \A i \in applies : i < v
                /\ \E w \in saves : v < w
           /\ session[d] = "closed"

\* C21: in one run at most one ConnectHandler call is made for a router, and
\* no command set is submitted to a router twice, whatever failed
C21_NoRetry ==
  \A d \in Devices :
    LET t == transcript[d]
    IN /\ Cardinality({i \in DOMAIN t : t[i].call = "ConnectHandler"}) <= 1
       /\ \A i, j \in DOMAIN t :
            (i < j /\ t[i].call = "send_config_set" /\ t[j].call = "send_config_set") =>
              t[i].commands # t[j].commands

\* C21 witness: the run has ended, the session open of one router failed and
\* a command set of another router failed, and that router was recorded
C21_Witness ==
  /\ pc = "exit"
  /\ \E d1, d2 \in Devices :
       /\ transcript[d1] = <<Call("ConnectHandler", "open", <<>>, FALSE)>>
       /\ ApplyFailed(d2)
       /\ Recorded(d2)

\* the routers the device loop has dealt with so far, and those of them it
\* called the per-router function for
Processed == {d \in Devices : d < idx}
Counted ==
  {d \in Processed : workflow = "interfaces" => interface_configs[d] # <<>>}

\* C22: at every point of a run success_count + fail_count is the number of
\* routers the loop has dealt with so far, the routers passed over for want
\* of an interface list left out; every router is counted once, as the
\* success or the failure it was recorded as; and when main returns after the
\* loop the sum is the number of inventory routers, or of those with an
\* interface list
C22_OutcomeAccounting ==
  /\ success_count + fail_count = Cardinality(Counted)
  /\ success_count = Cardinality({d \in Devices : outcome[d] = "success"})
  /\ fail_count = Cardinality({d \in Devices : outcome[d] = "failure"})
  /\ \A d \in Devices : Recorded(d) <=> d \in Counted
  /\ RunCompleted =>
       success_count + fail_count =
         IF workflow = "interfaces"
           THEN Cardinality({d \in Devices : interface_configs[d] # <<>>})
           ELSE NumDevices

\* C22 witness: a run of the interfaces workflow has ended in which one
\* router was passed over and a later one recorded, and the two counters sum
\* to the number of the other routers
C22_Witness ==
  /\ RunCompleted
  /\ workflow = "interfaces"
  /\ \E d1, d2 \in Devices :
       /\ d1 < d2
       /\ outcome[d1] = "skipped"
       /\ Recorded(d2)
       /\ success_count + fail_count = NumDevices - 1

\* C23: when a capture has written both files, the date in the header of
\* the timestamped file is the timestamp of its name, and the latest file
\* has the content of the timestamped file, header and body
C23_OneRecord ==
  (workflow = "backup" /\ pc = "disconnect") =>
    LET snapshot == files[TimestampedName(router, timestamp)]
    IN /\ snapshot[1] = <<"! Backup Date: ", timestamp>>
       /\ files[LatestName(router)] = snapshot

\* the files of backup_dir named for router d that differ from what the run
\* found, or that the run did not find
TouchedThisRun(d) ==
  {name \in DOMAIN files :
     /\ name[1] = d
     /\ (name \notin DOMAIN files_at_start \/ files[name] # files_at_start[name])}

\* C24: for a router whose backup is recorded as failed in the run, the run
\* has created or changed no file named for the router, timestamped or latest
C24_CaptureAllOrNothing ==
  \A d \in Devices : outcome[d] = "failure" => TouchedThisRun(d) = {}

====
